---- MODULE Spec2Model ----
(***************************************************************************)
(* Model of baskets/collect.py: the look-through holdings pipeline.        *)
(*                                                                         *)
(* Numbers.  Python floats are modelled as exact fixed-point integers:     *)
(* a weight `fraction` is an integer count of 1/FracUnit (1.0 = FracUnit), *)
(* and an `amount` (fraction * number * price) is therefore in units of    *)
(* 1/FracUnit of currency (50.0 = 50 * FracUnit).  Rescaled weights, which *)
(* are not multiples of 1/FracUnit, are kept as exact rationals            *)
(* <<numerator, denominator>>.  Floating-point rounding is not modelled.   *)
(*                                                                         *)
(* Tables.  baskets.table is not among the sources; Table and its          *)
(* operations follow the description of the Table component.  A table is   *)
(* [columns |-> sequence of names, rows |-> sequence of rows], a row being *)
(* a function from the column names to values.  The advisory column types  *)
(* are not observable by anything modelled here and are left out.          *)
(***************************************************************************)
EXTENDS Integers, Sequences, FiniteSets, TLC

VARIABLES
    pc,            \* position of main(): start, loop, group, report, done, aborted
    ignore_shorts, \* args.ignore_shorts
    assets,        \* the positions table: as read_exported_assets returned it,
                   \* then (the name is rebound) as assets.order(...) returned it
    idx,           \* index in assets of the row the for loop takes next
    alltables,     \* the accumulator list
    source,        \* history: for each element of alltables, the loop index
                   \* that appended it and the holdings table it was made from
    log,           \* logging calls so far: [level, msg, idx] (idx 0: not in the loop)
    calls,         \* collaborator calls so far: <<loop index, callee>>
    failure,       \* the message of the exception that ended the run, or ""
    fulltable,     \* table.concat(*alltables)
    aggtable,      \* graph.group(fulltable)
    headsize,      \* len(amount[cum_amount < total_amount * tail])
    printed,       \* aggtable.head(headsize)
    holdings_in,   \* check_holdings harness: the argument
    check_out,     \* check_holdings harness: "" before the call, then the outcome
    norm_in,       \* normalize_holdings_table harness: the argument
    norm_out,      \* normalize_holdings_table harness: the returned table
    norm_log,      \* normalize_holdings_table harness: logging calls
    norm_pc        \* normalize_holdings_table harness: idle, called, returned, raised

vars == <<pc, ignore_shorts, assets, idx, alltables, source, log, calls,
          failure, fulltable, aggtable, headsize, printed,
          holdings_in, check_out, norm_in, norm_out, norm_log, norm_pc>>

mainvars == <<pc, ignore_shorts, assets, idx, alltables, source, log, calls,
              failure, fulltable, aggtable, headsize, printed>>
checkvars == <<holdings_in, check_out>>
normvars == <<norm_in, norm_out, norm_log, norm_pc>>

(***************************************************************************)
(* Bounds and scales                                                       *)
(***************************************************************************)
MaxPositions == 3      \* rows of the positions table
MaxRows == 2           \* rows of a table handed to check_holdings / normalize
MaxAgg == 4            \* rows of an aggregated table handed to the report step
FracUnit == 100        \* fixed-point scale: the float 1.0

Range(s) == {s[i] : i \in DOMAIN s}
SeqsUpTo(S, n) == UNION {[1..k -> S] : k \in 0..n}

RECURSIVE SumSeq(_)
SumSeq(s) == IF s = <<>> THEN 0 ELSE s[1] + SumSeq(Tail(s))

(***************************************************************************)
(* Table (baskets.table)                                                   *)
(***************************************************************************)
Table(columns, rows) == [columns |-> columns, rows |-> rows]

\* The outcome of a failing table operation (an exception main() does not catch);
\* an operation applied to it fails the same way.
SchemaError == [error |-> "SchemaError"]
IsError(tbl) == "error" \in DOMAIN tbl

\* The rows a function given to create or map is applied to.
RowsOf(tbl) == IF IsError(tbl) THEN <<>> ELSE tbl.rows

\* create(column, fn): `computed` holds fn(row) for each row, in row order; the
\* function is applied when create is called and a new table is returned.
create(tbl, column, computed) ==
    IF IsError(tbl) THEN tbl
    ELSE IF column \in Range(tbl.columns) THEN SchemaError
    ELSE Table(Append(tbl.columns, column),
               [i \in DOMAIN tbl.rows |->
                   [c \in Range(tbl.columns) \cup {column} |->
                       IF c = column THEN computed[i] ELSE tbl.rows[i][c]]])

delete(tbl, columns) ==
    IF IsError(tbl) THEN tbl
    ELSE IF ~(Range(columns) \subseteq Range(tbl.columns)) THEN SchemaError
    ELSE Table(SelectSeq(tbl.columns, LAMBDA c : c \notin Range(columns)),
               [i \in DOMAIN tbl.rows |->
                   [c \in Range(tbl.columns) \ Range(columns) |-> tbl.rows[i][c]]])

select(tbl, columns) ==
    IF IsError(tbl) THEN tbl
    ELSE IF ~(Range(columns) \subseteq Range(tbl.columns)) THEN SchemaError
    ELSE Table(columns,
               [i \in DOMAIN tbl.rows |-> [c \in Range(columns) |-> tbl.rows[i][c]]])

\* map(column, fn): `computed` holds fn(value) for each row's value of the column.
map(tbl, column, computed) ==
    IF IsError(tbl) THEN tbl
    ELSE IF column \notin Range(tbl.columns) THEN SchemaError
    ELSE Table(tbl.columns,
               [i \in DOMAIN tbl.rows |->
                   [c \in Range(tbl.columns) |->
                       IF c = column THEN computed[i] ELSE tbl.rows[i][c]]])

\* values / array: the column as a sequence, in row order.
values(tbl, column) == [i \in DOMAIN tbl.rows |-> tbl.rows[i][column]]

head(tbl, n) ==
    Table(tbl.columns,
          SubSeq(tbl.rows, 1, IF n < Len(tbl.rows) THEN n ELSE Len(tbl.rows)))

RECURSIVE ConcatRows(_)
ConcatRows(tables) ==
    IF tables = <<>> THEN <<>> ELSE tables[1].rows \o ConcatRows(Tail(tables))

\* The schema is that of the first table; no first table, or a later table with
\* another column list, fails.
concat(tables) ==
    IF tables = <<>> \/ \E i \in DOMAIN tables : tables[i].columns # tables[1].columns
    THEN SchemaError
    ELSE Table(tables[1].columns, ConcatRows(tables))

(***************************************************************************)
(* The positions table (beansupport.read_exported_assets) and its order    *)
(***************************************************************************)
\* Python's order of the strings used here ("" first, then by code point:
\* upper case before lower case).
IssuerRank == [i \in {"", "Acme", "Vanguard", "iShares"} |->
                 CASE i = "" -> 0 [] i = "Acme" -> 1 [] i = "Vanguard" -> 2 [] OTHER -> 3]
TickerRank == [t \in {"ABC", "IVV"} |-> IF t = "ABC" THEN 0 ELSE 1]

\* lambda row: (row.issuer, row.ticker)
OrderKey(row) == <<IssuerRank[row.issuer], TickerRank[row.ticker]>>

\* Tuple comparison of two keys.
KeyLess(a, b) == a[1] < b[1] \/ (a[1] = b[1] /\ a[2] < b[2])

RECURSIVE InsertByKey(_, _)
InsertByKey(sorted, x) ==
    IF sorted = <<>> THEN <<x>>
    ELSE IF KeyLess(OrderKey(x), OrderKey(sorted[1])) THEN <<x>> \o sorted
    ELSE <<sorted[1]>> \o InsertByKey(Tail(sorted), x)

\* Table.order with the key of main(): stable, ascending.
RECURSIVE order(_)
order(rows) ==
    IF rows = <<>> THEN <<>>
    ELSE InsertByKey(order(SubSeq(rows, 1, Len(rows) - 1)), rows[Len(rows)])

(***************************************************************************)
(* Inputs of a run                                                         *)
(***************************************************************************)
Tickers == {"ABC", "IVV"}
Accounts == {"Cash", "Margin"}
Issuers == {"", "Acme", "Vanguard", "iShares"}
Prices == {5}
Numbers == {10, -5}

\* The rows a positions table is made of; short positions are those of the
\* margin account.
Positions ==
    { p \in [ticker : Tickers, account : Accounts, issuer : Issuers,
             price : Prices, number : Numbers] :
        p.account = IF p.number < 0 THEN "Margin" ELSE "Cash" }

\* issuers.MODULES: the registered issuer modules, and whether each has `parse`.
MODULES == [iShares |-> [parse |-> TRUE], Vanguard |-> [parse |-> FALSE]]

\* database.getlatest(db, ticker): the latest downloaded file, or None.
None == "None"
getlatest(ticker) == IF ticker = "IVV" THEN "db/IVV/latest.csv" ELSE None

\* What downloader.parse(filename) may return: tables of an issuer's file.
ParsedTables == {
    Table(<<"ticker", "asstype", "fraction">>,
          << [ticker |-> "AAPL", asstype |-> "Equity", fraction |-> 60],
             [ticker |-> "MSFT", asstype |-> "Equity", fraction |-> 40] >>),
    Table(<<"name", "fraction", "asstype", "isin">>,
          << [name |-> "T-Bill", fraction |-> 50, asstype |-> "FixedIncome", isin |-> "US01"],
             [name |-> "", fraction |-> 40, asstype |-> "ShortTerm", isin |-> ""] >>),
    Table(<<"ticker", "asstype", "fraction">>, <<>>),
    Table(<<"ticker", "asstype", "fraction", "weight">>,
          << [ticker |-> "AAPL", asstype |-> "Equity", fraction |-> 100, weight |-> 1] >>),
    Table(<<"ticker", "asstype">>,
          << [ticker |-> "AAPL", asstype |-> "Equity"] >>),
    Table(<<"asstype", "fraction">>,
          << [asstype |-> "Equity", fraction |-> 100] >>),
    Table(<<"ticker", "asstype", "fraction">>,
          << [ticker |-> "AAPL", asstype |-> "Equity", fraction |-> 70],
             [ticker |-> "USD", asstype |-> "Cash", fraction |-> 30] >>)
}

(***************************************************************************)
(* collect.py                                                              *)
(***************************************************************************)
\* Exact rationals <<numerator, denominator>> in lowest terms with a positive
\* denominator, for the weights after rescaling.
Abs(n) == IF n < 0 THEN -n ELSE n
RECURSIVE GCD(_, _)
GCD(a, b) == IF b = 0 THEN a ELSE GCD(b, a % b)
Rat(n, d) ==
    LET g == GCD(Abs(n), Abs(d))
        sign == IF d < 0 THEN -1 ELSE 1
    IN  <<sign * (n \div g), sign * (d \div g)>>
RatMul(a, b) == Rat(a[1] * b[1], a[2] * b[2])
RatAdd(a, b) == Rat(a[1] * b[2] + b[1] * a[2], a[2] * b[2])
RatEq(a, b) == a[1] * b[2] = b[1] * a[2]
RECURSIVE RatSum(_)
RatSum(s) == IF s = <<>> THEN Rat(0, 1) ELSE RatAdd(s[1], RatSum(Tail(s)))

LowWeight == 98     \* 0.98, in units of 1/FracUnit
HighWeight == 102   \* 1.02, in units of 1/FracUnit

\* sum([row.fraction for row in table])
TotalWeight(tbl) == SumSeq(values(tbl, "fraction"))

\* Variant: the interval taken closed, 0.98 <= total <= 1.02.
WeightWarningClosed(total) == ~(LowWeight <= total /\ total <= HighWeight)

\* The condition of the logging.error call of normalize_holdings_table.
WeightWarning(total) == ~(LowWeight < total /\ total < HighWeight)

\* normalize_holdings_table after `scale = 1. / total` succeeded (total # 0):
\* table.map('fraction', lambda f: f*scale).
normalize_holdings_table(tbl) ==
    LET total == TotalWeight(tbl)
        scale == Rat(FracUnit, total)
    IN  map(tbl, "fraction",
            [i \in DOMAIN RowsOf(tbl) |-> RatMul(Rat(tbl.rows[i].fraction, FracUnit), scale)])

ASSTYPES == {"Equity", "FixedIncome", "ShortTerm"}
IDCOLUMNS == <<"name", "ticker", "sedol", "isin", "cusip">>
COLUMNS == <<"etf", "account", "fraction", "asstype">> \o IDCOLUMNS

\* Variant: the assert on the identifier columns left out.
check_holdings_no_ids(holdings) ==
    LET actual == Range(holdings.columns)
        allowed == {"asstype", "fraction"} \cup Range(IDCOLUMNS)
        other == actual \ allowed
        required == {"asstype", "fraction"}
    IN  IF other # {} THEN "Extra columns found"
        ELSE IF ~(required \subseteq actual) THEN "Required columns missing"
        ELSE IF ~(\A cls \in Range(values(holdings, "asstype")) : cls \in ASSTYPES)
             THEN "AssertionError"
        ELSE "ok"

\* check_holdings: "ok" when every assert passes, else the assert that fails first.
check_holdings(holdings) ==
    LET actual == Range(holdings.columns)
        allowed == {"asstype", "fraction"} \cup Range(IDCOLUMNS)
        other == actual \ allowed
        required == {"asstype", "fraction"}
    IN  IF other # {} THEN "Extra columns found"
        ELSE IF ~(required \subseteq actual) THEN "Required columns missing"
        ELSE IF Range(IDCOLUMNS) \cap actual = {} THEN "No ids columns found"
        ELSE IF ~(\A cls \in Range(values(holdings, "asstype")) : cls \in ASSTYPES)
             THEN "AssertionError"
        ELSE "ok"

RECURSIVE AddMissingFrom(_, _)
AddMissingFrom(tbl, k) ==
    IF k > Len(IDCOLUMNS) \/ IsError(tbl) THEN tbl
    ELSE IF IDCOLUMNS[k] \notin Range(tbl.columns)
         THEN AddMissingFrom(create(tbl, IDCOLUMNS[k], [i \in DOMAIN RowsOf(tbl) |-> ""]), k + 1)
         ELSE AddMissingFrom(tbl, k + 1)

\* Variant: the loop stops before the last identifier column.
add_missing_but_last(tbl) ==
    IF "cusip" \in Range(tbl.columns) THEN AddMissingFrom(tbl, 1)
    ELSE delete(AddMissingFrom(tbl, 1), <<"cusip">>)

add_missing_columns(tbl) == AddMissingFrom(tbl, 1)

\* Variant: the three lambdas evaluated after the loop, when `row` and
\* `dollar_amount` are those of the last position.
DerivedLate(holdings, row) ==
    LET last == assets[Len(assets)]
        h1 == add_missing_columns(holdings)
        h2 == create(h1, "etf", [i \in DOMAIN RowsOf(h1) |-> last.ticker])
        h3 == create(h2, "account", [i \in DOMAIN RowsOf(h2) |-> last.account])
        h4 == select(h3, COLUMNS)
        dollar_amount == last.number * last.price
        h5 == create(h4, "amount",
                     [i \in DOMAIN RowsOf(h4) |-> h4.rows[i].fraction * dollar_amount])
    IN  delete(h5, <<"fraction">>)

\* main(), "Add parent ETF and fixup columns" and "Convert fraction to dollar
\* amount": the table appended to alltables for position `row`.
Derived(holdings, row) ==
    LET h1 == add_missing_columns(holdings)
        h2 == create(h1, "etf", [i \in DOMAIN RowsOf(h1) |-> row.ticker])
        h3 == create(h2, "account", [i \in DOMAIN RowsOf(h2) |-> row.account])
        h4 == select(h3, COLUMNS)
        dollar_amount == row.number * row.price
        h5 == create(h4, "amount",
                     [i \in DOMAIN RowsOf(h4) |-> h4.rows[i].fraction * dollar_amount])
    IN  delete(h5, <<"fraction">>)

\* Variant: the single weight written as a percentage, 100, instead of 1.0.
DirectHoldingsPercent(row) ==
    Table(<<"fraction", "asstype", "ticker">>,
          << [fraction |-> 100 * FracUnit, asstype |-> "Equity", ticker |-> row.ticker] >>)

\* The table main() builds for a position without issuer.
DirectHoldings(row) ==
    Table(<<"fraction", "asstype", "ticker">>,
          << [fraction |-> FracUnit, asstype |-> "Equity", ticker |-> row.ticker] >>)

Entry(level, msg, i) == [level |-> level, msg |-> msg, idx |-> i]

InLoop == pc = "loop" /\ idx <= Len(assets)
Row == assets[idx]

\* Variant: the flag forgotten, every short position skipped.
ShortWhateverFlag == Row.number < 0

\* Line 117: the position is short and shorts are ignored.
Short == Row.number < 0 /\ ignore_shorts

\* The tail of a loop iteration that reached line 146 with `holdings`.
Accumulate(holdings) ==
    LET t == Derived(holdings, Row)
    IN  IF IsError(t)
        THEN /\ pc' = "aborted"
             /\ failure' = t.error
             /\ UNCHANGED <<idx, alltables, source>>
        ELSE /\ alltables' = Append(alltables, t)
             /\ source' = Append(source, [idx |-> idx, holdings |-> holdings])
             /\ idx' = idx + 1
             /\ UNCHANGED <<pc, failure>>

Untouched == UNCHANGED <<ignore_shorts, assets, fulltable, aggtable,
                         headsize, printed, checkvars, normvars>>

(***************************************************************************)
(* graph.group (not among the sources; after the Aggregator's description) *)
(***************************************************************************)
RECURSIVE FirstNonEmpty(_, _)
FirstNonEmpty(row, k) ==
    IF k > Len(IDCOLUMNS) THEN ""
    ELSE IF row[IDCOLUMNS[k]] # "" THEN row[IDCOLUMNS[k]]
    ELSE FirstNonEmpty(row, k + 1)

\* The identity of a row: its first non-empty identifier, name first.
Identity(row) == FirstNonEmpty(row, 1)

\* The (identity, asstype) partitions in order of first appearance.
RECURSIVE Partitions(_)
Partitions(rows) ==
    IF rows = <<>> THEN <<>>
    ELSE LET init == Partitions(SubSeq(rows, 1, Len(rows) - 1))
             last == rows[Len(rows)]
             part == <<Identity(last), last.asstype>>
         IN  IF Identity(last) = "" \/ part \in Range(init) THEN init
             ELSE Append(init, part)

PartitionSum(rows, part) ==
    SumSeq([i \in DOMAIN rows |->
               IF <<Identity(rows[i]), rows[i].asstype>> = part THEN rows[i].amount ELSE 0])

RECURSIVE InsertDescending(_, _)
InsertDescending(sorted, x) ==
    IF sorted = <<>> THEN <<x>>
    ELSE IF x.amount > sorted[1].amount THEN <<x>> \o sorted
    ELSE <<sorted[1]>> \o InsertDescending(Tail(sorted), x)

RECURSIVE SortDescending(_)
SortDescending(rows) ==
    IF rows = <<>> THEN <<>>
    ELSE InsertDescending(SortDescending(SubSeq(rows, 1, Len(rows) - 1)), rows[Len(rows)])

group(tbl) ==
    LET parts == Partitions(tbl.rows)
    IN  Table(<<"id", "asstype", "amount">>,
              SortDescending([k \in DOMAIN parts |->
                  [id |-> parts[k][1], asstype |-> parts[k][2],
                   amount |-> PartitionSum(tbl.rows, parts[k])]]))

(***************************************************************************)
(* The report step of main()                                               *)
(***************************************************************************)
Tail98 == 98    \* tail = 0.98, in units of 1/FracUnit

\* numpy.cumsum
cumsum(amount) == [i \in DOMAIN amount |-> SumSeq(SubSeq(amount, 1, i))]

\* Variant: the comparison taken as <=.
HeadSizeInclusive(amount) ==
    LET total_amount == SumSeq(amount)
        cum_amount == cumsum(amount)
        mask == [i \in DOMAIN amount |-> cum_amount[i] * FracUnit <= total_amount * Tail98]
    IN  SumSeq([i \in DOMAIN amount |-> IF mask[i] THEN 1 ELSE 0])

\* len(amount[cum_amount < total_amount * tail]): the number of True in the mask.
HeadSize(amount) ==
    LET total_amount == SumSeq(amount)
        cum_amount == cumsum(amount)
        mask == [i \in DOMAIN amount |-> cum_amount[i] * FracUnit < total_amount * Tail98]
    IN  SumSeq([i \in DOMAIN amount |-> IF mask[i] THEN 1 ELSE 0])

(***************************************************************************)
(* main()                                                                  *)
(***************************************************************************)
EmptyTable == Table(<<>>, <<>>)

InitInputs ==
    /\ ignore_shorts \in BOOLEAN
    /\ assets \in SeqsUpTo(Positions, MaxPositions)

InitMain ==
    /\ pc = "start"
    /\ idx = 1
    /\ alltables = <<>>
    /\ source = <<>>
    /\ log = <<>>
    /\ calls = {}
    /\ failure = ""
    /\ fulltable = EmptyTable
    /\ aggtable = EmptyTable
    /\ headsize = 0
    /\ printed = EmptyTable

IdleCheck == holdings_in = EmptyTable /\ check_out = ""
IdleNorm == norm_in = EmptyTable /\ norm_out = EmptyTable /\ norm_log = <<>> /\ norm_pc = "idle"

Init == InitInputs /\ InitMain /\ IdleCheck /\ IdleNorm

\* Lines 101-104: the positions are read and ordered by (issuer, ticker).
LoadAssets ==
    /\ pc = "start"
    /\ assets' = order(assets)
    /\ pc' = "loop"
    /\ UNCHANGED <<ignore_shorts, idx, alltables, source, log, calls, failure,
                   fulltable, aggtable, headsize, printed, checkvars, normvars>>

\* Lines 117-118.
SkipShort ==
    /\ InLoop /\ Short
    /\ idx' = idx + 1
    /\ UNCHANGED <<pc, alltables, source, log, calls, failure>>
    /\ Untouched

\* Lines 120-123, 145-157.
DirectPosition ==
    /\ InLoop /\ ~Short
    /\ Row.issuer = ""
    /\ Accumulate(DirectHoldings(Row))
    /\ UNCHANGED <<log, calls>>
    /\ Untouched

\* Lines 125-129.
MissingIssuer ==
    /\ InLoop /\ ~Short
    /\ Row.issuer # ""
    /\ Row.issuer \notin DOMAIN MODULES
    /\ calls' = calls \cup {<<idx, "MODULES">>}
    /\ log' = Append(log, Entry("ERROR", "Missing issuer", idx))
    /\ idx' = idx + 1
    /\ UNCHANGED <<pc, alltables, source, failure>>
    /\ Untouched

\* Variant: no `filename is None` test; the parser is handed None and raises.
MissingFileRaises ==
    /\ InLoop /\ ~Short
    /\ Row.issuer # ""
    /\ Row.issuer \in DOMAIN MODULES
    /\ getlatest(Row.ticker) = None
    /\ calls' = calls \cup {<<idx, "MODULES">>, <<idx, "getlatest">>, <<idx, "parse">>}
    /\ log' = Append(log, Entry("INFO", "Parsing file", idx))
    /\ pc' = "aborted"
    /\ failure' = "TypeError"
    /\ UNCHANGED <<idx, alltables, source>>
    /\ Untouched

\* Lines 125-134.
MissingFile ==
    /\ InLoop /\ ~Short
    /\ Row.issuer # ""
    /\ Row.issuer \in DOMAIN MODULES
    /\ getlatest(Row.ticker) = None
    /\ calls' = calls \cup {<<idx, "MODULES">>, <<idx, "getlatest">>}
    /\ log' = Append(log, Entry("ERROR", "Missing file", idx))
    /\ idx' = idx + 1
    /\ UNCHANGED <<pc, alltables, source, failure>>
    /\ Untouched

\* Lines 125-139.
MissingParser ==
    /\ InLoop /\ ~Short
    /\ Row.issuer # ""
    /\ Row.issuer \in DOMAIN MODULES
    /\ getlatest(Row.ticker) # None
    /\ ~MODULES[Row.issuer].parse
    /\ calls' = calls \cup {<<idx, "MODULES">>, <<idx, "getlatest">>}
    /\ log' = log \o << Entry("INFO", "Parsing file", idx),
                        Entry("ERROR", "Parser is not implemented", idx) >>
    /\ idx' = idx + 1
    /\ UNCHANGED <<pc, alltables, source, failure>>
    /\ Untouched

Parsable ==
    /\ InLoop /\ ~Short
    /\ Row.issuer # ""
    /\ Row.issuer \in DOMAIN MODULES
    /\ getlatest(Row.ticker) # None
    /\ MODULES[Row.issuer].parse

ParseCalls == {<<idx, "MODULES">>, <<idx, "getlatest">>, <<idx, "parse">>,
               <<idx, "check_holdings">>}

\* Lines 125-157, the parsed table passing check_holdings.
ParsedPosition ==
    /\ Parsable
    /\ \E holdings \in ParsedTables :
          /\ check_holdings(holdings) = "ok"
          /\ Accumulate(holdings)
    /\ calls' = calls \cup ParseCalls
    /\ log' = Append(log, Entry("INFO", "Parsing file", idx))
    /\ Untouched

\* Variant: the AssertionError caught around the call and the position skipped.
RejectedSkipped ==
    /\ Parsable
    /\ \E holdings \in ParsedTables :
          /\ check_holdings(holdings) # "ok"
          /\ failure' = check_holdings(holdings)
    /\ idx' = idx + 1
    /\ calls' = calls \cup ParseCalls
    /\ log' = Append(log, Entry("INFO", "Parsing file", idx))
    /\ UNCHANGED <<pc, alltables, source>>
    /\ Untouched

\* Lines 125-143, an assert of check_holdings failing: the AssertionError is
\* caught nowhere and ends main().
RejectedPosition ==
    /\ Parsable
    /\ \E holdings \in ParsedTables :
          /\ check_holdings(holdings) # "ok"
          /\ failure' = check_holdings(holdings)
    /\ pc' = "aborted"
    /\ calls' = calls \cup ParseCalls
    /\ log' = Append(log, Entry("INFO", "Parsing file", idx))
    /\ UNCHANGED <<idx, alltables, source>>
    /\ Untouched

\* Lines 160-165: the loop is over.
Concat ==
    /\ pc = "loop" /\ idx > Len(assets)
    /\ LET t == concat(alltables)
       IN  IF IsError(t)
           THEN /\ pc' = "aborted"
                /\ failure' = t.error
                /\ UNCHANGED <<fulltable, log>>
           ELSE /\ fulltable' = t
                /\ log' = Append(log, Entry("INFO", "Total amount from full holdings table", 0))
                /\ pc' = "group"
                /\ UNCHANGED failure
    /\ UNCHANGED <<ignore_shorts, assets, idx, alltables, source, calls,
                   aggtable, headsize, printed, checkvars, normvars>>

\* Lines 168-171; a row without any identifier is reported by graph.group.
Group ==
    /\ pc = "group"
    /\ aggtable' = group(fulltable)
    /\ log' = IF \E r \in DOMAIN fulltable.rows : Identity(fulltable.rows[r]) = ""
              THEN Append(log, Entry("ERROR", "No identifier", 0))
              ELSE log
    /\ pc' = "report"
    /\ UNCHANGED <<ignore_shorts, assets, idx, alltables, source, calls,
                   failure, fulltable, headsize, printed, checkvars, normvars>>

\* Lines 173-180.
Report ==
    /\ pc = "report"
    /\ headsize' = HeadSize(values(aggtable, "amount"))
    /\ printed' = head(aggtable, headsize')
    /\ log' = Append(log, Entry("INFO", "Total", 0))
    /\ pc' = "done"
    /\ UNCHANGED <<ignore_shorts, assets, idx, alltables, source, calls,
                   failure, fulltable, aggtable, checkvars, normvars>>

Next ==
    \/ LoadAssets
    \/ SkipShort
    \/ DirectPosition
    \/ MissingIssuer
    \/ MissingFile
    \/ MissingParser
    \/ ParsedPosition
    \/ RejectedPosition
    \/ Concat
    \/ Group
    \/ Report

Spec == Init /\ [][Next]_vars

(***************************************************************************)
(* check_holdings on its own                                               *)
(***************************************************************************)
CheckColumns == <<"asstype", "fraction", "name", "ticker", "isin", "weight">>
CheckAsstypes == {"Equity", "FixedIncome", "ShortTerm", "Cash"}

\* A row over `columns` whose asstype is `a` (when it has that column).
CheckRow(columns, a) ==
    [c \in Range(columns) |->
        CASE c = "asstype" -> a
          [] c = "fraction" -> 50
          [] c = "weight" -> 50
          [] OTHER -> "X"]

CheckTables ==
    { Table(SelectSeq(CheckColumns, LAMBDA c : c \in cs),
            [i \in DOMAIN as |-> CheckRow(SelectSeq(CheckColumns, LAMBDA c : c \in cs), as[i])]) :
        cs \in SUBSET Range(CheckColumns), as \in SeqsUpTo(CheckAsstypes, MaxRows) }

InitCheck ==
    /\ ignore_shorts = FALSE /\ assets = <<>> /\ InitMain /\ IdleNorm
    /\ holdings_in \in CheckTables
    /\ check_out = ""

\* One call check_holdings(holdings_in); the outcome is "ok" (it returned) or
\* the assert that raised.
CallCheckHoldings ==
    /\ check_out = ""
    /\ check_out' = check_holdings(holdings_in)
    /\ UNCHANGED <<holdings_in, mainvars, normvars>>

SpecCheck == InitCheck /\ [][CallCheckHoldings]_vars

(***************************************************************************)
(* normalize_holdings_table on its own                                     *)
(***************************************************************************)
NormFractions == {0, 49, 50, 51, 98, 102, -50}
NormRows == [ticker : {"AAPL", "MSFT"}, asstype : {"Equity"}, fraction : NormFractions]
NormTables == { Table(<<"ticker", "asstype", "fraction">>, rows) :
                  rows \in SeqsUpTo(NormRows, MaxRows) }

InitNorm ==
    /\ ignore_shorts = FALSE /\ assets = <<>> /\ InitMain /\ IdleCheck
    /\ norm_in \in NormTables
    /\ norm_out = EmptyTable
    /\ norm_log = <<>>
    /\ norm_pc = "idle"

\* One call normalize_holdings_table(norm_in): it returns the rescaled table, or
\* `1. / total` raises ZeroDivisionError; before that the total is checked and
\* the error is logged.
CallNormalize ==
    /\ norm_pc = "idle"
    /\ norm_log' = IF WeightWarning(TotalWeight(norm_in))
                   THEN <<Entry("ERROR", "Total weight seems invalid", 0)>>
                   ELSE <<>>
    /\ IF TotalWeight(norm_in) = 0
       THEN norm_pc' = "raised" /\ UNCHANGED norm_out
       ELSE norm_pc' = "returned" /\ norm_out' = normalize_holdings_table(norm_in)
    /\ UNCHANGED <<norm_in, mainvars, checkvars>>

SpecNorm == InitNorm /\ [][CallNormalize]_vars

(***************************************************************************)
(* The report step on its own, on any aggregated table                     *)
(***************************************************************************)
ReportAmounts == {500, 300, 150, 50, 49, 1, 0, -50}
ReportIds == <<"S1", "S2", "S3", "S4", "S5", "S6">>
ReportTables ==
    { Table(<<"id", "asstype", "amount">>,
            [i \in DOMAIN am |-> [id |-> ReportIds[i], asstype |-> "Equity", amount |-> am[i]]]) :
        am \in SeqsUpTo(ReportAmounts, MaxAgg) }

InitReport ==
    /\ ignore_shorts = FALSE /\ assets = <<>> /\ idx = 1
    /\ alltables = <<>> /\ source = <<>> /\ log = <<>> /\ calls = {} /\ failure = ""
    /\ fulltable = EmptyTable /\ headsize = 0 /\ printed = EmptyTable
    /\ IdleCheck /\ IdleNorm
    /\ pc = "report"
    /\ aggtable \in ReportTables

SpecReport == InitReport /\ [][Report]_vars

(***************************************************************************)
(* Properties of main()                                                    *)
(***************************************************************************)
\* The full table exists.
HasFull == pc \in {"group", "report", "done"}

\* The loop has finished with position i.
Finished(i) == pc # "start" /\ i \in DOMAIN assets /\ i < idx

\* The position is skipped by line 117.
Excluded(p) == p.number < 0 /\ ignore_shorts

\* The elements of alltables that position i appended.
Contributions(i) == {k \in DOMAIN source : source[k].idx = i}

\* The rows of the full table that come from element k of alltables.
Offset(k) == SumSeq([j \in 1..(k - 1) |-> Len(alltables[j].rows)])
Segment(k) == SubSeq(fulltable.rows, Offset(k) + 1, Offset(k) + Len(alltables[k].rows))

\* The rows of the full table are those of the accumulated tables, in order.
FullIsAccumulated ==
    /\ Len(fulltable.rows) = SumSeq([k \in DOMAIN alltables |-> Len(alltables[k].rows)])
    /\ \A k \in DOMAIN alltables : Segment(k) = alltables[k].rows

\* The diagnostic of a position whose lookup misses, "" when none does.
MissOf(p) ==
    IF p.issuer = "" THEN ""
    ELSE IF p.issuer \notin DOMAIN MODULES THEN "Missing issuer"
    ELSE IF getlatest(p.ticker) = None THEN "Missing file"
    ELSE IF ~MODULES[p.issuer].parse THEN "Parser is not implemented"
    ELSE ""

LoggedFor(i) == {n \in DOMAIN log : log[n].idx = i}
CallsFor(i) == {c \in calls : c[1] = i}

CheckFailures == {"Extra columns found", "Required columns missing",
                  "No ids columns found", "AssertionError"}

OutColumns == <<"etf", "account", "asstype", "name", "ticker", "sedol", "isin", "cusip",
                "amount">>

\* C1: a position without issuer that the loop has processed (and line 117 did
\* not skip) has appended exactly one table of exactly one row, with the
\* position's ticker, asstype Equity and amount number * price; that row is its
\* one row in the full table; and no issuer lookup, file lookup, parse or
\* check_holdings call was made for it.
C1_DirectPositionOneRow ==
    \A i \in DOMAIN assets :
        (Finished(i) /\ assets[i].issuer = "" /\ ~Excluded(assets[i])) =>
            /\ Cardinality(Contributions(i)) = 1
            /\ \A k \in Contributions(i) :
                  /\ Len(alltables[k].rows) = 1
                  /\ alltables[k].rows[1].ticker = assets[i].ticker
                  /\ alltables[k].rows[1].asstype = "Equity"
                  /\ alltables[k].rows[1].amount =
                         assets[i].number * assets[i].price * FracUnit
                  /\ HasFull => Segment(k) = alltables[k].rows
            /\ CallsFor(i) = {}

\* number=10, price=5, ticker ABC: one row of 50.0 in the full table of a finished run.
C1_Witness ==
    /\ pc = "done"
    /\ \E i \in DOMAIN assets :
          /\ assets[i] = [ticker |-> "ABC", account |-> "Cash", issuer |-> "",
                          price |-> 5, number |-> 10]
          /\ \E k \in Contributions(i) :
                /\ Segment(k) = alltables[k].rows
                /\ Len(Segment(k)) = 1
                /\ Segment(k)[1].amount = 50 * FracUnit
                /\ Segment(k)[1].ticker = "ABC"
                /\ Segment(k)[1].asstype = "Equity"

\* What the loop has done with a position it does not skip: a position whose
\* lookup misses appended nothing and logged its error; any other appended one
\* table, the one derived from its holdings table.
ProcessedAsUsual(i) ==
    IF MissOf(assets[i]) # ""
    THEN /\ Contributions(i) = {}
         /\ \E n \in LoggedFor(i) : log[n].level = "ERROR" /\ log[n].msg = MissOf(assets[i])
    ELSE /\ Cardinality(Contributions(i)) = 1
         /\ \A k \in Contributions(i) :
               /\ alltables[k] = Derived(source[k].holdings, assets[i])
               /\ assets[i].issuer = "" => source[k].holdings = DirectHoldings(assets[i])
               /\ assets[i].issuer # "" =>
                     /\ source[k].holdings \in ParsedTables
                     /\ <<i, "check_holdings">> \in calls

\* C2: a short position the loop has passed, with ignore_shorts set, appended no
\* table, logged nothing and caused no call, whatever its issuer, so the full
\* table has no row of it; with ignore_shorts unset it was processed as a long
\* position is.
C2_ShortPositions ==
    /\ \A i \in DOMAIN assets :
          (Finished(i) /\ assets[i].number < 0) =>
              IF ignore_shorts
              THEN Contributions(i) = {} /\ LoggedFor(i) = {} /\ CallsFor(i) = {}
              ELSE ProcessedAsUsual(i)
    /\ HasFull => FullIsAccumulated

\* A finished run that ignored a short fund position and still has a full table.
C2_Witness ==
    /\ pc = "done"
    /\ ignore_shorts
    /\ fulltable.rows # <<>>
    /\ \E i \in DOMAIN assets : assets[i].number < 0 /\ assets[i].issuer = "iShares"
    /\ \E i \in DOMAIN assets : assets[i].number < 0 /\ assets[i].issuer = ""

\* C3 as stated: once a position's lookup has missed, the run is not ended by
\* an exception: the other positions contribute and the run goes on to
\* concatenation and aggregation.  (Stated for the exception the sources show,
\* the failed assert of check_holdings on another position's table.)
C3_MissNeverFollowedByAbort ==
    (\E i \in DOMAIN assets : Finished(i) /\ ~Excluded(assets[i]) /\ MissOf(assets[i]) # "")
        => ~(pc = "aborted" /\ failure \in CheckFailures)

\* C3, amended: a lookup miss is a soft error.  The position appended nothing
\* and logged its error, and every other processed position, before or after
\* it, that is not skipped appended its table, which is in the full table when
\* there is one.  A run is only ever ended by a failed assert of check_holdings
\* on a parsed table, or by the concatenation of an empty accumulator, never by
\* a lookup miss.
C3_LookupMissIsSoft ==
    /\ \A i \in DOMAIN assets :
          (Finished(i) /\ ~Excluded(assets[i])) => ProcessedAsUsual(i)
    /\ HasFull => FullIsAccumulated
    /\ pc = "aborted" =>
          \/ /\ failure \in CheckFailures
             /\ idx \in DOMAIN assets
             /\ assets[idx].issuer # "" /\ MissOf(assets[idx]) = ""
          \/ /\ failure = "SchemaError"
             /\ idx > Len(assets)
             /\ alltables = <<>>
    /\ (pc = "loop" /\ idx > Len(assets)) => ENABLED Concat

\* A finished run in which a lookup missed between two contributing positions.
C3_Witness ==
    /\ pc = "done"
    /\ \E i, j, l \in DOMAIN assets :
          /\ i < j /\ j < l
          /\ MissOf(assets[j]) # "" /\ ~Excluded(assets[j])
          /\ Contributions(i) # {} /\ Contributions(l) # {}
          /\ \E k \in Contributions(l) : Segment(k) = alltables[k].rows /\ Segment(k) # <<>>

\* C4 as stated: a table failing check_holdings does not abort the run.
C4_RejectionDoesNotAbort == ~(pc = "aborted" /\ failure \in CheckFailures)

\* C4, amended: a parsed table failing check_holdings ends the whole run at that
\* position: the AssertionError leaves main().  The tables accumulated so far
\* are never concatenated, no full table and no aggregated table is produced,
\* nothing is printed, the positions after it are not processed, and nothing
\* further happens.
C4_RejectionAbortsRun ==
    /\ failure \in CheckFailures => pc = "aborted"
    /\ (pc = "aborted" /\ failure \in CheckFailures) =>
          /\ idx \in DOMAIN assets
          /\ <<idx, "check_holdings">> \in calls
          /\ \A k \in DOMAIN source : source[k].idx < idx
          /\ \A c \in calls : c[1] <= idx
          /\ fulltable = EmptyTable /\ aggtable = EmptyTable /\ printed = EmptyTable
          /\ ~ENABLED Next

\* A run aborted by a rejected table, with a table already accumulated and a
\* fund position still to come.
C4_Witness ==
    /\ pc = "aborted" /\ failure \in CheckFailures
    /\ alltables # <<>>
    /\ idx < Len(assets)
    /\ MissOf(assets[idx + 1]) = "" /\ ~Excluded(assets[idx + 1])

\* C6 as stated: the amounts of the rows a position appended sum to the
\* position's number * price, whatever the weights of its (non-empty) holdings
\* table sum to.
C6_AmountsSumToPositionValue ==
    \A k \in DOMAIN alltables :
        alltables[k].rows # <<>> =>
            SumSeq(values(alltables[k], "amount")) =
                assets[source[k].idx].number * assets[source[k].idx].price * FracUnit

\* Sorted by (issuer, ticker), ascending.
Ordered(rows) ==
    \A i, j \in DOMAIN rows : i < j => ~KeyLess(OrderKey(rows[j]), OrderKey(rows[i]))

\* C9: the positions are taken in ascending (issuer, ticker) order, and every
\* accumulated table is attributed to the position that appended it: it has as
\* many rows as that position's holdings table, and each row has that
\* position's ticker as etf, its account, and the amount fraction * number *
\* price of that position; the same rows are in the full table.
C9_RowsAttributedToTheirPosition ==
    /\ pc # "start" => Ordered(assets)
    /\ Len(source) = Len(alltables)
    /\ \A k, l \in DOMAIN source : k < l => source[k].idx < source[l].idx
    /\ \A k \in DOMAIN alltables :
          LET p == assets[source[k].idx]
              h == source[k].holdings
              t == alltables[k]
          IN  /\ Len(t.rows) = Len(h.rows)
              /\ \A r \in DOMAIN t.rows :
                    /\ t.rows[r].etf = p.ticker
                    /\ t.rows[r].account = p.account
                    /\ t.rows[r].amount = h.rows[r].fraction * (p.number * p.price)
              /\ HasFull => Segment(k) = t.rows

\* A finished run of two contributing positions that differ in ticker, account
\* and value, the second a fund of two holdings.
C9_Witness ==
    /\ pc = "done"
    /\ \E k, l \in DOMAIN alltables :
          /\ k < l
          /\ Len(alltables[l].rows) = 2
          /\ assets[source[k].idx].ticker # assets[source[l].idx].ticker
          /\ assets[source[k].idx].account # assets[source[l].idx].account
          /\ assets[source[k].idx].number # assets[source[l].idx].number
          /\ Segment(l)[2].etf = assets[source[l].idx].ticker

\* C10: every accumulated table has the column list etf, account, asstype,
\* name, ticker, sedol, isin, cusip, amount (no fraction), each row has exactly
\* these fields, an identifier column the holdings table lacked is "" in every
\* row and one it had is kept; so the derivation and the concatenation never
\* fail on a schema, and the full table has the same columns.
C10_UniformSchema ==
    /\ \A k \in DOMAIN alltables :
          /\ alltables[k].columns = OutColumns
          /\ \A r \in DOMAIN alltables[k].rows :
                /\ DOMAIN alltables[k].rows[r] = Range(OutColumns)
                /\ \A c \in Range(IDCOLUMNS) :
                      alltables[k].rows[r][c] =
                          IF c \in Range(source[k].holdings.columns)
                          THEN source[k].holdings.rows[r][c]
                          ELSE ""
    /\ (pc = "aborted" /\ failure = "SchemaError") =>
          (idx > Len(assets) /\ alltables = <<>>)
    /\ HasFull => fulltable.columns = OutColumns

\* A full table concatenated from the synthesized table and two parsed tables
\* with different identifier columns.
C10_Witness ==
    /\ HasFull
    /\ \E k, l, m \in DOMAIN source :
          /\ source[k].holdings.columns = <<"fraction", "asstype", "ticker">>
          /\ source[l].holdings.columns = <<"ticker", "asstype", "fraction">>
          /\ source[l].holdings.rows # <<>>
          /\ source[m].holdings.columns = <<"name", "fraction", "asstype", "isin">>

(***************************************************************************)
(* Properties of check_holdings, normalize_holdings_table and the report   *)
(***************************************************************************)
\* C5: check_holdings accepts a table exactly when (a) its columns are among
\* asstype, fraction, name, ticker, sedol, isin, cusip, (b) asstype and fraction
\* are both there, (c) so is at least one of name, ticker, sedol, isin, cusip,
\* and (d) every asstype value is Equity, FixedIncome or ShortTerm; otherwise one
\* of its asserts fails.
C5_CheckHoldingsAcceptsIff ==
    check_out # "" =>
        LET actual == Range(holdings_in.columns)
            a == actual \subseteq {"asstype", "fraction", "name", "ticker", "sedol",
                                   "isin", "cusip"}
            b == "asstype" \in actual /\ "fraction" \in actual
            c == \E id \in {"name", "ticker", "sedol", "isin", "cusip"} : id \in actual
            d == "asstype" \in actual =>
                    \A r \in DOMAIN holdings_in.rows :
                        holdings_in.rows[r].asstype \in {"Equity", "FixedIncome", "ShortTerm"}
        IN  /\ check_out = "ok" <=> (a /\ b /\ c /\ d)
            /\ check_out # "ok" => check_out \in CheckFailures

\* A table with the right columns rejected for an asstype value alone.
C5_Witness ==
    /\ check_out = "AssertionError"
    /\ holdings_in.columns = <<"asstype", "fraction", "ticker">>
    /\ Len(holdings_in.rows) = 2
    /\ holdings_in.rows[1].asstype = "Equity"
    /\ holdings_in.rows[2].asstype = "Cash"

\* C7: for a non-empty table whose weights sum to total > 0,
\* normalize_holdings_table returns the same rows in the same order with each
\* weight multiplied by 1/total, so that the weights sum to 1; it logs its
\* error exactly when total is not inside the open interval (0.98, 1.02), the
\* ends 0.98 and 1.02 included among the totals that log, and rescales either way.
C7_NormalizeRescales ==
    (norm_pc # "idle" /\ norm_in.rows # <<>> /\ TotalWeight(norm_in) > 0) =>
        LET total == TotalWeight(norm_in)
        IN  /\ norm_pc = "returned"
            /\ norm_out.columns = norm_in.columns
            /\ Len(norm_out.rows) = Len(norm_in.rows)
            /\ \A r \in DOMAIN norm_in.rows :
                  /\ norm_out.rows[r].ticker = norm_in.rows[r].ticker
                  /\ norm_out.rows[r].asstype = norm_in.rows[r].asstype
                  /\ RatEq(norm_out.rows[r].fraction, <<norm_in.rows[r].fraction, total>>)
            /\ RatEq(RatSum(values(norm_out, "fraction")), <<1, 1>>)
            /\ norm_log # <<>> <=> (total <= 98 \/ total >= 102)

\* A table of two weights summing to exactly 0.98: rescaled, with the error logged.
C7_Witness ==
    /\ norm_pc = "returned"
    /\ Len(norm_in.rows) = 2
    /\ TotalWeight(norm_in) = 98
    /\ norm_log # <<>>
    /\ RatEq(norm_out.rows[1].fraction, <<1, 2>>)

\* C8: the report prints the first h rows of the aggregated table, h being the
\* number of rows whose running sum of amount is strictly below 0.98 of the
\* total (3 for the amounts 500, 300, 150, 50); when the amounts are
\* non-negative and descending, these are exactly the rows before the first
\* one whose running sum reaches the threshold.
C8_HeadIsCountBelowThreshold ==
    pc = "done" =>
        LET amount == values(aggtable, "amount")
            total == SumSeq(amount)
            Below(i) == SumSeq(SubSeq(amount, 1, i)) * 100 < total * 98
            sorted == \A i \in DOMAIN amount :
                         amount[i] >= 0 /\ (i > 1 => amount[i - 1] >= amount[i])
        IN  /\ headsize = Cardinality({i \in DOMAIN amount : Below(i)})
            /\ printed = Table(aggtable.columns, SubSeq(aggtable.rows, 1, headsize))
            /\ amount = <<500, 300, 150, 50>> => headsize = 3
            /\ sorted =>
                  /\ \A i \in DOMAIN amount : i <= headsize <=> Below(i)
                  /\ headsize < Len(amount) =>
                        (~Below(headsize + 1) /\ \A i \in 1..headsize : Below(i))

\* The amounts 500, 300, 150, 50: three rows printed.
C8_Witness ==
    /\ pc = "done"
    /\ values(aggtable, "amount") = <<500, 300, 150, 50>>
    /\ headsize = 3
    /\ Len(printed.rows) = 3

====
